---- MODULE Spec2Model ----
(***************************************************************************)
(* A model of pgsqlite.py: PGSqlite.load_schema followed by                *)
(* PGSqlite.populate_postgres (schema build, concurrent per-table COPY,    *)
(* foreign keys and indexes), of the per-row value transformation, and of  *)
(* the synthesis of the statements (type mapping, CREATE TABLE, foreign    *)
(* keys, indexes) over drawn catalogs.                                     *)
(***************************************************************************)
EXTENDS Integers, Sequences, FiniteSets, TLC

\* ------------------------------------------------------------------------
\* Bounds and program constants
\* ------------------------------------------------------------------------

\* number of tables db.tables enumerates
NumTables == 2

\* longest column list of the generic tables of the row specification
MaxCols == 1

\* longest list of primary-key columns, of foreign keys and of index entries
\* of a table of the synthesis specification
MaxKeys == 2

\* most words of a declared column type of the synthesis specification
MaxWords == 2

\* rows_copied % 1000 == 0 (the progress update of write_table_data)
ProgressInterval == 1000

Tables == 1..NumTables

\* a table name a foreign key may reference although db.tables does not
\* enumerate it (SQLite does not check the parent table of a foreign key)
DanglingTable == NumTables + 1

\* sizes of a source table: empty, one row, one progress interval, one more
RowCounts == {0, 1, ProgressInterval, ProgressInterval + 1}

\* ------------------------------------------------------------------------
\* Python values read from a sqlite3 cursor
\* ------------------------------------------------------------------------

\* a text is a sequence of one-character strings
Text_true == <<"t", "r", "u", "e">>
Text_TRUE == <<"T", "R", "U", "E">>
Text_True == <<"T", "r", "u", "e">>
Text_false == <<"f", "a", "l", "s", "e">>
Text_x == <<"x">>
Text_FALSE == <<"F", "A", "L", "S", "E">>

PyNone == [k |-> "none", i |-> 0, s |-> <<>>]
PyInt(n) == [k |-> "int", i |-> n, s |-> <<>>]
PyFloat(n) == [k |-> "float", i |-> n, s |-> <<>>]
PyStr(t) == [k |-> "str", i |-> 0, s |-> t]
PyBytes(t) == [k |-> "bytes", i |-> 0, s |-> t]

\* the values a SQLite column of any declared type can hold
Values ==
    {PyNone, PyInt(0), PyInt(1), PyInt(2), PyFloat(0), PyFloat(1),
     PyStr(<<>>), PyStr(Text_true), PyStr(Text_TRUE), PyStr(Text_True),
     PyStr(Text_false), PyStr(Text_x), PyBytes(<<>>)}

IsNumber(v) == v.k \in {"int", "float"}

\* Python truth value testing: None, numeric zero and empty sequences are false
Truthy(v) ==
    CASE v.k = "none" -> FALSE
      [] IsNumber(v) -> v.i # 0
      [] OTHER -> Len(v.s) > 0

\* val == n for an int n: numbers compare by value, nothing else equals a number
EqInt(v, n) == IsNumber(v) /\ v.i = n

LowerChar(c) ==
    CASE c = "T" -> "t"
      [] c = "R" -> "r"
      [] c = "U" -> "u"
      [] c = "E" -> "e"
      [] OTHER -> c

\* str.lower / bytes.lower
Lower(t) == [j \in 1..Len(t) |-> LowerChar(t[j])]

\* the outcome of a call: a returned value or a raised exception
Return(v) == [raised |-> "no", val |-> v]
Raise(e) == [raised |-> e, val |-> PyNone]

boolean_transformer(val, nullable) ==
    IF nullable /\ ~Truthy(val) THEN Return(PyNone)
    ELSE IF ~nullable /\ ~Truthy(val) THEN Raise("Exception")
    \* val == 1 or val.lower() == "true": a number has no attribute lower
    ELSE IF EqInt(val, 1) THEN Return(PyStr(Text_TRUE))
    ELSE IF IsNumber(val) THEN Raise("AttributeError")
    ELSE IF val.k = "str" /\ Lower(val.s) = Text_true THEN Return(PyStr(Text_TRUE))
    ELSE Return(PyStr(Text_FALSE))

\* ------------------------------------------------------------------------
\* Texts and the type mapping
\* ------------------------------------------------------------------------

Text_STRING == <<"S", "T", "R", "I", "N", "G">>
Text_NVARCHAR == <<"N", "V", "A", "R", "C", "H", "A", "R">>
Text_VARCHAR == <<"V", "A", "R", "C", "H", "A", "R">>
Text_DATETIME == <<"D", "A", "T", "E", "T", "I", "M", "E">>
Text_BLOB == <<"B", "L", "O", "B">>
Text_TEXT == <<"T", "E", "X", "T">>
Text_TIMESTAMP == <<"T", "I", "M", "E", "S", "T", "A", "M", "P">>
Text_BYTEA == <<"B", "Y", "T", "E", "A">>
Text_INTEGER == <<"I", "N", "T", "E", "G", "E", "R">>
Text_BOOLEAN == <<"B", "O", "O", "L", "E", "A", "N">>
Text_N == <<"N">>
Text_Len20 == <<"(", "2", "0", ")">>
Text_NVARCHAR20 == Text_NVARCHAR \o Text_Len20
Text_VARCHAR20 == Text_VARCHAR \o Text_Len20
Text_empty == <<>>
Text_id == <<"i", "d">>
Text_active == <<"a", "c", "t", "i", "v", "e">>
Text_nickname == <<"n", "i", "c", "k", "n", "a", "m", "e">>
Text_name == <<"n", "a", "m", "e">>
Text_seq == <<"s", "e", "q">>
Text_rowid == <<"r", "o", "w", "i", "d">>
Text_idx == <<"i", "d", "x">>
Text_c == <<"c">>
Text_a == <<"a">>
Text_b == <<"b">>
Text_ab == <<"a", "b">>
Text_PK == <<"P", "K", "_">>
Text_FK == <<"F", "K", "_">>

\* pat occurs in t at position i
OccursAt(t, pat, i) ==
    /\ i + Len(pat) - 1 <= Len(t)
    /\ \A j \in 1..Len(pat) : t[i + j - 1] = pat[j]

\* pat in t
Contains(t, pat) == \E i \in 1..Len(t) : OccursAt(t, pat, i)

\* t.replace(pat, rep) from position i on: every occurrence, left to right,
\* without overlap
RECURSIVE ReplaceFrom(_, _, _, _)
ReplaceFrom(t, pat, rep, i) ==
    IF i > Len(t) THEN <<>>
    ELSE IF OccursAt(t, pat, i)
    THEN rep \o ReplaceFrom(t, pat, rep, i + Len(pat))
    ELSE <<t[i]>> \o ReplaceFrom(t, pat, rep, i + 1)

Replace(t, pat, rep) == ReplaceFrom(t, pat, rep, 1)

\* a mutant of remap_column_type: the rules are tried in the reverse order
remap_column_type_blob_first(column_type) ==
    IF Contains(column_type, Text_BLOB) THEN Text_BYTEA
    ELSE IF Contains(column_type, Text_DATETIME) THEN Text_TIMESTAMP
    ELSE IF Contains(column_type, Text_NVARCHAR)
    THEN Replace(column_type, Text_NVARCHAR, Text_VARCHAR)
    ELSE IF Contains(column_type, Text_STRING) THEN Text_TEXT
    ELSE column_type

remap_column_type(column_type) ==
    IF Contains(column_type, Text_STRING) THEN Text_TEXT
    ELSE IF Contains(column_type, Text_NVARCHAR)
    THEN Replace(column_type, Text_NVARCHAR, Text_VARCHAR)
    ELSE IF Contains(column_type, Text_DATETIME) THEN Text_TIMESTAMP
    ELSE IF Contains(column_type, Text_BLOB) THEN Text_BYTEA
    ELSE column_type

\* ------------------------------------------------------------------------
\* The per-row loop of write_table_data
\* ------------------------------------------------------------------------

\* self.transformers: only 'BOOLEAN' has a transformer
transformers == {Text_BOOLEAN}

\* a column of table.columns; an empty default_value is no default
Column(name, type, notnull) ==
    [name |-> name, type |-> type, notnull |-> notnull, default_value |-> Text_empty]

\* a mutant of empty_coercion: the test for the numeral zero is missing
empty_coercion_zero_too(c, v) ==
    IF ~c.notnull /\ ~Truthy(v) THEN PyNone ELSE v

\* if not c.notnull: if row[idx] != 0 and not row[idx]: row[idx] = None
empty_coercion(c, v) ==
    IF ~c.notnull /\ ~EqInt(v, 0) /\ ~Truthy(v) THEN PyNone ELSE v

\* if c.type in self.transformers: row[idx] = self.transformers[c.type](...)
apply_transformer(c, v) ==
    IF c.type \in transformers
    THEN boolean_transformer(v, ~c.notnull)
    ELSE Return(v)

\* one pass of the inner loop: the transformer, then the empty coercion
transform_column(c, v) ==
    LET t == apply_transformer(c, v)
    IN  IF t.raised # "no" THEN t ELSE Return(empty_coercion(c, t.val))

\* the inner loop over a whole row: the first exception raised, if any
RECURSIVE RowRaises(_, _, _)
RowRaises(columns, row, idx) ==
    IF idx > Len(columns) THEN "no"
    ELSE LET t == transform_column(columns[idx], row[idx])
         IN  IF t.raised # "no" THEN t.raised
             ELSE RowRaises(columns, row, idx + 1)

\* the table of the end-to-end scenario
UsersColumns ==
    << Column(Text_id, Text_INTEGER, FALSE),
       Column(Text_active, Text_BOOLEAN, TRUE),
       Column(Text_nickname, Text_NVARCHAR20, FALSE) >>

\* sqlite_sequence(name, seq): no declared types, nothing not null
SequenceColumns ==
    << Column(Text_name, Text_empty, FALSE), Column(Text_seq, Text_empty, FALSE) >>

ColumnKinds ==
    {Column(Text_c, type, notnull) :
        type \in {Text_BOOLEAN, Text_INTEGER, Text_NVARCHAR20}, notnull \in BOOLEAN}

RECURSIVE SeqsOfLen(_, _)
SeqsOfLen(S, n) ==
    IF n = 0 THEN {<<>>}
    ELSE {Append(q, x) : q \in SeqsOfLen(S, n - 1), x \in S}

\* the column lists of the row specification
ColumnLists ==
    {UsersColumns} \cup UNION {SeqsOfLen(ColumnKinds, n) : n \in 1..MaxCols}

\* the rows of the row specification: every value in the column under test
RowsOf(columns) ==
    IF columns = UsersColumns
    THEN {<<u, v, w>> : u \in {PyInt(0), PyInt(1)}, v \in Values,
                         w \in {PyStr(<<>>), PyStr(Text_x), PyNone}}
    ELSE SeqsOfLen(Values, Len(columns))

\* ------------------------------------------------------------------------
\* State
\* ------------------------------------------------------------------------

VARIABLES
    db,           \* the SQLite file: which table is sqlite_sequence, keys, rows
    pc,           \* where the run is: load_schema, then populate_postgres
    stmt,         \* the position of the statement loop the run is in
    tables_sql,   \* self.tables_sql
    fks_sql,      \* self.fks_sql
    indexes_sql,  \* self.indexes_sql
    summary,      \* self.summary["tables"]
    pg,           \* what is committed in the Postgres database
    txn,          \* what the open transaction of the run has not yet committed
    task,         \* the write_table_data task of every table
    log,          \* history: the statements the target has accepted, in order
    rr            \* the row specification: one pass of the per-row loop

vars == <<db, pc, stmt, tables_sql, fks_sql, indexes_sql, summary, pg, txn,
          task, log, rr>>

run_vars == <<db, pc, stmt, tables_sql, fks_sql, indexes_sql, summary, pg, txn,
              task, log>>

\* ------------------------------------------------------------------------
\* The source catalog (sqlite_utils Database)
\* ------------------------------------------------------------------------

\* table.name == "sqlite_sequence"; db.seqAt = 0 when the file has none
IsSequenceTable(t) == t = db.seqAt

UserTables == {t \in Tables : ~IsSequenceTable(t)}

\* sqlite_sequence is created by the first AUTOINCREMENT table, so it is never
\* the first table of the catalog
SeqPositions == {0} \cup (2..NumTables)

\* the shapes of the foreign keys and indexes of the catalog
Shapes == {"plain", "forward", "backward", "dangling"}

\* the name of the key column of a user table: every table is keyed "id" in
\* the plain catalogs, and by a name of its own ("id1", "id2") in the others
KeyName(t) == IF db.shape = "plain" THEN Text_id ELSE Text_id \o <<ToString(t)>>

ForeignKey(t, column, o, other_column) ==
    [table |-> t, column |-> column, other_table |-> o,
     other_column |-> other_column]

\* an entry of index.columns: the name is empty for an expression and for the
\* rowid that PRAGMA index_xinfo lists after the key columns
XIndexColumn(name, desc) == [name |-> name, desc |-> desc]

XIndex(name, cols) == [name |-> name, columns |-> cols]

\* table.foreign_keys
foreign_keys(t) ==
    LET later == {u \in UserTables : u > t}
        earlier == {u \in UserTables : u < t}
    IN  IF IsSequenceTable(t) THEN <<>>
        ELSE IF db.shape = "forward" /\ later # {}
        THEN LET o == CHOOSE u \in later : \A w \in later : u <= w
             IN  << ForeignKey(t, KeyName(t), o, KeyName(o)) >>
        ELSE IF db.shape = "backward" /\ earlier # {}
        THEN LET o == CHOOSE u \in earlier : \A w \in earlier : u >= w
             IN  << ForeignKey(t, KeyName(t), o, KeyName(o)) >>
        ELSE IF db.shape = "dangling" /\ t = 1
        THEN << ForeignKey(t, KeyName(t), DanglingTable, Text_id) >>
        ELSE <<>>

\* table.xindexes
xindexes(t) ==
    IF IsSequenceTable(t) \/ db.shape = "plain" THEN <<>>
    ELSE << XIndex(Text_idx \o <<ToString(t)>>,
                   << XIndexColumn(Text_nickname, FALSE),
                      XIndexColumn(Text_empty, FALSE) >>) >>

\* table.columns
columns(t) ==
    IF IsSequenceTable(t) THEN SequenceColumns
    ELSE [UsersColumns EXCEPT ![1].name = KeyName(t)]

\* table.pks: the rowid stands in when the table declares no primary key
pks(t) == IF IsSequenceTable(t) THEN <<Text_rowid>> ELSE <<KeyName(t)>>

\* table.use_rowid: the table declares no primary key
use_rowid(t) == IsSequenceTable(t)

\* an element of db.tables: drawn as a whole in the synthesis specification,
\* put together from the shape of the catalog in the run specification
Table(t) ==
    IF db.shape = "drawn" THEN db.tables[t]
    ELSE [name |-> t, columns |-> columns(t), pks |-> pks(t),
          use_rowid |-> use_rowid(t), foreign_keys |-> foreign_keys(t),
          xindexes |-> xindexes(t)]

\* the rows a cursor over the table can yield
SourceRows(t) ==
    IF IsSequenceTable(t)
    THEN {<<PyStr(Text_x), PyInt(1)>>}
    ELSE {<<PyInt(1), v, PyStr(<<>>)>> : v \in Values}

\* ------------------------------------------------------------------------
\* The Transfer Summary
\* ------------------------------------------------------------------------

Categories == {"columns", "pks", "fks", "checks", "data", "indexes"}

\* a key the dictionary does not hold
NoEntry == [present |-> FALSE, status |-> "", loaded |-> 0, count |-> 0]

\* {"status": status, "count": count}; "LOADED n" is status LOADED, loaded n
Entry(status, loaded, count) ==
    [present |-> TRUE, status |-> status, loaded |-> loaded, count |-> count]

SetStatus(e, status, loaded) ==
    [e EXCEPT !.present = TRUE, !.status = status, !.loaded = loaded]

\* for table in self.summary["tables"][cat]: ...[table]["status"] = status
MarkAll(sm, cat, status) ==
    [sm EXCEPT ![cat] =
        [t \in Tables |->
            IF sm[cat][t].present THEN SetStatus(sm[cat][t], status, 0)
            ELSE sm[cat][t]]]

\* ------------------------------------------------------------------------
\* Construction and load_schema
\* ------------------------------------------------------------------------

NoTransaction == [tables |-> {}, fks |-> {}, indexes |-> {}]

Unstarted == [pc |-> "unstarted", rows_copied |-> 0, exc |-> "no"]

RowIdle == [state |-> "idle", columns |-> <<>>, source |-> <<>>, row |-> <<>>,
            mid |-> <<>>, idx |-> 0, raised |-> "no", sent |-> <<>>]

\* a mutant of next_phase: the keys are applied first, the tables after
next_phase_keys_first(p) ==
    CASE p = "constructed" -> "fk"
      [] p = "fk" -> "index"
      [] p = "index" -> "create"
      [] p = "create" -> "load_data"
      [] OTHER -> "done"

\* a mutant of next_phase: the indexes are applied before the foreign keys
next_phase_indexes_first(p) ==
    CASE p = "constructed" -> "create"
      [] p = "create" -> "load_data"
      [] p = "loading" -> "index"
      [] p = "index" -> "fk"
      [] OTHER -> "done"

\* the order of the blocks of populate_postgres after load_schema: the CREATE
\* TABLE loop, load_data_to_postgres, the foreign keys, the indexes
next_phase(p) ==
    CASE p = "constructed" -> "create"
      [] p = "create" -> "load_data"
      [] p = "loading" -> "fk"
      [] p = "fk" -> "index"
      [] OTHER -> "done"

\* a mutant of on_exception: the exception is swallowed and the run goes on
on_exception_swallowed(p) == next_phase(p)

\* no block catches an exception: it leaves populate_postgres
on_exception(p) ==
    CASE p = "create" -> "create_failed"
      [] p = "loading" -> "load_failed"
      [] OTHER -> "keys_failed"

\* a mutant of rollback: the statements were committed one by one
rollback_autocommit(p, x) ==
    [p EXCEPT !.tables = @ \cup x.tables, !.fks = @ \cup x.fks,
              !.indexes = @ \cup x.indexes]

\* an exception leaves "with psycopg.connect(...) as conn": the transaction
\* is rolled back and the target keeps what was committed before
rollback(p, x) == p

Failure(op, t) == [op |-> op, table |-> t, other |-> 0]

\* PGSqlite.__init__: empty statement lists, an empty summary.  The target may
\* already hold tables named like tables of the source (an earlier run).
Init ==
    /\ db \in [seqAt : SeqPositions, shape : Shapes, nrows : [Tables -> RowCounts]]
    /\ pg \in [tables : SUBSET Tables, rows : {[t \in Tables |-> 0]},
               fks : {{}}, indexes : {{}}]
    /\ pc = "constructed"
    /\ stmt = 0
    /\ tables_sql = <<>>
    /\ fks_sql = <<>>
    /\ indexes_sql = <<>>
    /\ summary = [cat \in Categories |-> [t \in Tables |-> NoEntry]]
    /\ txn = NoTransaction
    /\ task = [t \in Tables |-> Unstarted]
    /\ log = <<>>
    /\ rr = RowIdle

\* ''.join(names)
RECURSIVE Join(_)
Join(names) ==
    IF names = <<>> THEN <<>> ELSE Head(names) \o Join(Tail(names))

\* for column in table.columns: the clauses follow the order of the list
column_order(cols) == cols

\* the clause of one column: name, mapped type, NOT NULL, DEFAULT
column_sql(column) ==
    [name |-> column.name, type |-> remap_column_type(column.type),
     notnull |-> column.notnull, default_value |-> column.default_value]

\* a mutant of pk_clause: the synthetic rowid is not looked at
pk_clause_ignores_rowid(table) == table.pks # <<>>

\* if table.pks and not table.use_rowid
pk_clause(table) == table.pks # <<>> /\ ~table.use_rowid

\* pk_name = "PK_" + ''.join(table.pks)
pk_name(table) == Text_PK \o Join(table.pks)

\* get_table_sql: the CREATE TABLE statement of a table
get_table_sql(table) ==
    LET cols == column_order(table.columns)
    IN  [op |-> "CREATE", table |-> table.name, other |-> 0,
         columns |-> [j \in 1..Len(cols) |-> column_sql(cols[j])],
         has_pk |-> pk_clause(table),
         pk_name |-> IF pk_clause(table) THEN pk_name(table) ELSE Text_empty,
         pks |-> IF pk_clause(table) THEN table.pks ELSE <<>>]

\* fk_name = "FK_" + fk.other_column
fk_name(fk) == Text_FK \o fk.other_column

\* get_fk_sql: one ALTER TABLE ... ADD CONSTRAINT per foreign key
get_fk_sql(table) ==
    [i \in 1..Len(table.foreign_keys) |->
        LET fk == table.foreign_keys[i]
        IN  [op |-> "FK", table |-> table.name, other |-> fk.other_table,
             key_name |-> fk_name(fk), column |-> fk.column,
             other_column |-> fk.other_column]]

\* for col in index.columns: if not col.name: continue; ... col_sql.append
RECURSIVE col_sql(_)
col_sql(cols) ==
    IF cols = <<>> THEN <<>>
    ELSE (IF Head(cols).name = Text_empty THEN <<>>
          ELSE << [name |-> Head(cols).name,
                   sort_order |-> IF Head(cols).desc THEN "DESC" ELSE "ASC"] >>)
         \o col_sql(Tail(cols))

\* get_index_sql: one CREATE INDEX per index
get_index_sql(table) ==
    [i \in 1..Len(table.xindexes) |->
        [op |-> "INDEX", table |-> table.name, other |-> 0,
         index_name |-> table.xindexes[i].name,
         columns |-> col_sql(table.xindexes[i].columns)]]

\* for table in db.tables: if table.name == "sqlite_sequence": continue
schema_skips(t) == IsSequenceTable(t)

\* the statements load_schema collects over the first n tables of db.tables
RECURSIVE Collect(_, _)
Collect(n, kind) ==
    IF n = 0 THEN <<>>
    ELSE Collect(n - 1, kind) \o
         (IF schema_skips(n) THEN <<>>
          ELSE IF kind = "tables" THEN << get_table_sql(Table(n)) >>
          ELSE IF kind = "fks" THEN get_fk_sql(Table(n))
          ELSE get_index_sql(Table(n)))

\* _drop_tables: DROP TABLE IF EXISTS ... CASCADE for every table of db.tables
drop_tables(p) ==
    [p EXCEPT !.tables = p.tables \ Tables,
              !.rows = [t \in Tables |-> 0],
              !.fks = {}, !.indexes = {}]

\* load_schema(drop_existing_postgres_tables)
load_schema(drop) ==
    /\ pc = "constructed"
    /\ pg' = IF drop THEN drop_tables(pg) ELSE pg
    /\ tables_sql' = Collect(NumTables, "tables")
    /\ fks_sql' = Collect(NumTables, "fks")
    /\ indexes_sql' = Collect(NumTables, "indexes")
    /\ summary' =
        [cat \in Categories |->
            [t \in Tables |->
                IF schema_skips(t) \/ cat = "data" THEN NoEntry
                ELSE IF cat = "columns"
                THEN Entry("PREPARED", 0, Len(Table(t).columns))
                ELSE IF cat = "pks" THEN Entry("PREPARED", 0, Len(Table(t).pks))
                ELSE IF cat = "fks"
                THEN Entry("PREPARED", 0, Len(Table(t).foreign_keys))
                ELSE IF cat = "indexes"
                THEN Entry("PREPARED", 0, Len(Table(t).xindexes))
                ELSE Entry("IGNORED", 0, 0)]]
    /\ pc' = next_phase(pc)
    /\ stmt' = 1
    /\ UNCHANGED <<db, txn, task, log, rr>>

\* ------------------------------------------------------------------------
\* populate_postgres, first block: the CREATE TABLE statements
\* ------------------------------------------------------------------------

\* the names of the primary-key indexes of the target's tables: a table of
\* the target named like a table of the source was made by an earlier run
PkIndexNames(S) ==
    {pk_name(Table(u)) : u \in {x \in S : pk_clause(Table(x))}}

\* whether the target accepts a CREATE TABLE: never when the table's name is
\* taken, nor when the name of its primary-key constraint is the name of
\* another relation (the constraint's index shares the tables' namespace)
create_accepted(s, ok) ==
    /\ ok
    /\ s.table \notin (pg.tables \cup txn.tables)
    /\ s.has_pk => s.pk_name \notin PkIndexNames(pg.tables \cup txn.tables)

\* cur.execute(create_sql), one statement of the loop
ExecCreate ==
    /\ pc = "create"
    /\ stmt <= Len(tables_sql)
    /\ \E ok \in BOOLEAN :
         LET t == tables_sql[stmt].table
         IN  IF create_accepted(tables_sql[stmt], ok)
             THEN /\ txn' = [txn EXCEPT !.tables = @ \cup {t}]
                  /\ log' = Append(log, tables_sql[stmt])
                  /\ stmt' = stmt + 1
                  /\ pc' = pc
                  /\ UNCHANGED pg
             ELSE /\ pg' = rollback(pg, txn)
                  /\ txn' = NoTransaction
                  /\ log' = Append(log, Failure("CREATE_FAILED", t))
                  /\ pc' = on_exception(pc)
                  /\ stmt' = stmt
    /\ UNCHANGED <<db, tables_sql, fks_sql, indexes_sql, summary, task, rr>>

\* the statuses a finished CREATE loop sets
schema_marks(sm) == MarkAll(MarkAll(sm, "columns", "CREATED"), "pks", "CREATED")

\* the end of the first with block: the statuses, then the commit
CommitSchema ==
    /\ pc = "create"
    /\ stmt > Len(tables_sql)
    /\ summary' = schema_marks(summary)
    /\ pg' = [pg EXCEPT !.tables = @ \cup txn.tables]
    /\ txn' = NoTransaction
    /\ log' = Append(log, [op |-> "COMMIT", table |-> 0, other |-> 0])
    /\ pc' = next_phase(pc)
    /\ stmt' = 1
    /\ UNCHANGED <<db, tables_sql, fks_sql, indexes_sql, task, rr>>

\* ------------------------------------------------------------------------
\* load_data_to_postgres and the write_table_data tasks
\* ------------------------------------------------------------------------

\* load_data_to_postgres up to the first suspension of asyncio.run: the data
\* entries of every table of db.tables, then gather starts one task per table
\* and each runs (sqlite3.connect, SELECT *) to its first await
load_data_to_postgres ==
    /\ pc = "load_data"
    /\ summary' = [summary EXCEPT !["data"] =
                     [t \in Tables |-> Entry("PREPARED", 0, db.nrows[t])]]
    /\ task' = [t \in Tables |-> [pc |-> "connect", rows_copied |-> 0, exc |-> "no"]]
    /\ pc' = "loading"
    /\ UNCHANGED <<db, stmt, tables_sql, fks_sql, indexes_sql, pg, txn, log, rr>>

\* await psycopg.AsyncConnection.connect(...) returns; conn.cursor();
\* pg_cur.copy(...) sends the COPY statement
TaskConnect(t) ==
    /\ pc = "loading"
    /\ task[t].pc = "connect"
    /\ task' = [task EXCEPT ![t].pc = "copy_start"]
    /\ UNCHANGED <<db, pc, stmt, tables_sql, fks_sql, indexes_sql, summary, pg,
                   txn, log, rr>>

\* a mutant of abort_copy: the rows written before the exception stay
abort_copy_keeps_rows(p, t, written) == [p EXCEPT !.rows[t] = @ + written]

\* an exception leaves "async with pg_cur.copy" and "async with ... as conn":
\* the COPY is ended with an error and the transaction rolled back
abort_copy(p, t, written) == p

\* the connection's context commits: the rows of the COPY are in the table
commit_copy(p, t, written) == [p EXCEPT !.rows[t] = @ + written]

\* if rows_copied % 1000 == 0: status = f"LOADED {rows_copied}", for
\* rows_copied running from lo to hi: the last update wins
progress_status(e, lo, hi) ==
    LET m == (hi \div ProgressInterval) * ProgressInterval
    IN  IF m >= lo /\ lo >= 1 THEN SetStatus(e, "LOADED", m) ELSE e

\* a mutant of set_data_status: the tasks share the entry of the first table
set_data_status_shared(sm, t, e) == [sm EXCEPT !["data"][1] = e]

\* self.summary["tables"]["data"][table.name]["status"] = ...: the entry of
\* the task's own table
set_data_status(sm, t, e) == [sm EXCEPT !["data"][t] = e]

\* a mutant of final_status: the update after the loop is missing
final_status_missing(e, rows_copied) == e

\* self.summary["tables"]["data"][table.name]["status"] = f"LOADED {rows_copied}"
final_status(e, rows_copied) == SetStatus(e, "LOADED", rows_copied)

\* what the inner loop does on the rows the cursor can yield next: "no" when
\* a row passes, else the exception raised
RowOutcomes(t) == {RowRaises(columns(t), r, 1) : r \in SourceRows(t)}

\* the task leaves write_table_data with the exception
TaskRaises(t, rows_copied, exc) ==
    /\ task' = [task EXCEPT ![t] = [pc |-> "raised", rows_copied |-> rows_copied,
                                    exc |-> exc]]
    /\ pg' = abort_copy(pg, t, rows_copied)

\* the COPY statement is answered.  The loop starts: the first row is
\* transformed and the task suspends in copy.write_row, or the cursor is empty
TaskCopyStart(t) ==
    /\ pc = "loading"
    /\ task[t].pc = "copy_start"
    /\ IF t \notin pg.tables
       THEN \* COPY names a table the target does not have
            /\ TaskRaises(t, 0, "UndefinedTable")
            /\ UNCHANGED summary
       ELSE IF db.nrows[t] = 0
       THEN /\ summary' = set_data_status(summary, t,
                                 final_status(summary["data"][t], 0))
            /\ task' = [task EXCEPT ![t].pc = "copy_end"]
            /\ UNCHANGED pg
       ELSE \E e \in RowOutcomes(t) :
              IF e # "no"
              THEN /\ TaskRaises(t, 0, e)
                   /\ UNCHANGED summary
              ELSE /\ task' = [task EXCEPT ![t].pc = "write_row"]
                   /\ UNCHANGED <<pg, summary>>
    /\ UNCHANGED <<db, pc, stmt, tables_sql, fks_sql, indexes_sql, txn, log, rr>>

\* copy.write_row buffers rows: the task suspends in it at the row after a
\* progress update, and runs the loop without suspending in between
NextBoundary(c) ==
    ((c + ProgressInterval - 1) \div ProgressInterval) * ProgressInterval

\* copy.write_row(row) returns with rows_copied = c: the loop runs on to the
\* next suspension, to the end of the cursor, or to a row whose transformer
\* raises
TaskWriteRow(t) ==
    /\ pc = "loading"
    /\ task[t].pc = "write_row"
    /\ LET n == db.nrows[t]
           c == task[t].rows_copied
           s == NextBoundary(c + 1)
           last == IF s < n THEN s + 1 ELSE n   \* the last row transformed
       IN  \/ \* no row raises
              IF s < n
              THEN /\ task' = [task EXCEPT ![t].rows_copied = s]
                   /\ summary' = set_data_status(summary, t,
                                    progress_status(summary["data"][t], c + 1, s))
                   /\ UNCHANGED pg
              ELSE /\ task' = [task EXCEPT ![t].pc = "copy_end",
                                           ![t].rows_copied = n]
                   /\ summary' = set_data_status(summary, t,
                                    final_status(progress_status(
                                        summary["data"][t], c + 1, n), n))
                   /\ UNCHANGED pg
           \/ \* row b raises: the first or the last row of this stretch
              \E b \in {c + 2, last} :
                /\ c + 2 <= b /\ b <= last
                /\ \E e \in RowOutcomes(t) \ {"no"} : TaskRaises(t, b - 1, e)
                /\ summary' = set_data_status(summary, t,
                                 progress_status(summary["data"][t], c + 1, b - 1))
    /\ UNCHANGED <<db, pc, stmt, tables_sql, fks_sql, indexes_sql, txn, log, rr>>

\* the copy block is left: the COPY is ended, logger.info, the cursor closed,
\* and the connection's context sends COMMIT
TaskCopyEnd(t) ==
    /\ pc = "loading"
    /\ task[t].pc = "copy_end"
    /\ task' = [task EXCEPT ![t].pc = "commit"]
    /\ UNCHANGED <<db, pc, stmt, tables_sql, fks_sql, indexes_sql, summary, pg,
                   txn, log, rr>>

\* the COMMIT is answered, the connection closed, sl_conn.close()
TaskCommit(t) ==
    /\ pc = "loading"
    /\ task[t].pc = "commit"
    /\ task' = [task EXCEPT ![t].pc = "done"]
    /\ pg' = commit_copy(pg, t, task[t].rows_copied)
    /\ UNCHANGED <<db, pc, stmt, tables_sql, fks_sql, indexes_sql, summary, txn,
                   log, rr>>

Running == {"connect", "copy_start", "write_row", "copy_end", "commit"}

\* a mutant of cancelled_by_run: gather's other tasks are left alone
cancelled_by_run_none(tk) == FALSE

\* asyncio.run cancels every task that is not done when its main coroutine
\* ends
cancelled_by_run(tk) == tk.pc \in Running

RECURSIVE CommitAll(_, _)
CommitAll(p, S) ==
    IF S = {} THEN p
    ELSE LET t == CHOOSE x \in S : TRUE
         IN  CommitAll(commit_copy(p, t, task[t].rows_copied), S \ {t})

\* gather re-raises the first exception into load_all_data, asyncio.run ends
\* and cancels the remaining tasks at their await; a COMMIT that was already
\* sent may or may not have taken effect
RunRaises ==
    /\ pc = "loading"
    /\ \E t \in Tables : task[t].pc = "raised"
    /\ \E landed \in SUBSET {t \in Tables : task[t].pc = "commit"} :
         pg' = CommitAll(pg, landed)
    /\ task' = [t \in Tables |->
                  IF cancelled_by_run(task[t])
                  THEN [task[t] EXCEPT !.pc = "cancelled"]
                  ELSE task[t]]
    /\ pc' = on_exception(pc)
    /\ stmt' = 1
    /\ log' = Append(log, Failure("LOAD_FAILED", 0))
    /\ UNCHANGED <<db, tables_sql, fks_sql, indexes_sql, summary, txn, rr>>

\* every task is done: gather and asyncio.run return, and populate_postgres
\* opens the connection of its second block
RunReturns ==
    /\ pc = "loading"
    /\ \A t \in Tables : task[t].pc = "done"
    /\ pc' = next_phase(pc)
    /\ stmt' = 1
    /\ UNCHANGED <<db, tables_sql, fks_sql, indexes_sql, summary, pg, txn, task,
                   log, rr>>

\* ------------------------------------------------------------------------
\* populate_postgres, second block: foreign keys, then indexes
\* ------------------------------------------------------------------------

\* whether the target accepts an ALTER TABLE ... FOREIGN KEY: never when one
\* of the two tables is missing, nor when the table already has a constraint
\* of that name
fk_accepted(f, ok) ==
    /\ ok
    /\ f.table \in pg.tables
    /\ f.other \in pg.tables
    /\ \A i \in pg.fks \cup txn.fks :
          fks_sql[i].table = f.table => fks_sql[i].key_name # f.key_name

\* cur.execute(fk), one statement of the loop
ExecFk ==
    /\ pc = "fk"
    /\ stmt <= Len(fks_sql)
    /\ \E ok \in BOOLEAN :
         IF fk_accepted(fks_sql[stmt], ok)
         THEN /\ txn' = [txn EXCEPT !.fks = @ \cup {stmt}]
              /\ log' = Append(log, fks_sql[stmt])
              /\ stmt' = stmt + 1
              /\ pc' = pc
              /\ UNCHANGED pg
         ELSE /\ pg' = rollback(pg, txn)
              /\ txn' = NoTransaction
              /\ log' = Append(log, Failure("FK_FAILED", fks_sql[stmt].table))
              /\ pc' = on_exception(pc)
              /\ stmt' = stmt
    /\ UNCHANGED <<db, tables_sql, fks_sql, indexes_sql, summary, task, rr>>

\* for table in self.summary["tables"]["fks"]: status = "CREATED"
MarkFks ==
    /\ pc = "fk"
    /\ stmt > Len(fks_sql)
    /\ summary' = MarkAll(summary, "fks", "CREATED")
    /\ pc' = next_phase(pc)
    /\ stmt' = 1
    /\ UNCHANGED <<db, tables_sql, fks_sql, indexes_sql, pg, txn, task, log, rr>>

\* whether the target accepts a CREATE INDEX
index_accepted(x, ok) == ok /\ x.table \in pg.tables

\* cur.execute(index), one statement of the loop
ExecIndex ==
    /\ pc = "index"
    /\ stmt <= Len(indexes_sql)
    /\ \E ok \in BOOLEAN :
         IF index_accepted(indexes_sql[stmt], ok)
         THEN /\ txn' = [txn EXCEPT !.indexes = @ \cup {stmt}]
              /\ log' = Append(log, indexes_sql[stmt])
              /\ stmt' = stmt + 1
              /\ pc' = pc
              /\ UNCHANGED pg
         ELSE /\ pg' = rollback(pg, txn)
              /\ txn' = NoTransaction
              /\ log' = Append(log, Failure("INDEX_FAILED", indexes_sql[stmt].table))
              /\ pc' = on_exception(pc)
              /\ stmt' = stmt
    /\ UNCHANGED <<db, tables_sql, fks_sql, indexes_sql, summary, task, rr>>

\* the index statuses, then the end of the second with block: the commit
CommitKeys ==
    /\ pc = "index"
    /\ stmt > Len(indexes_sql)
    /\ summary' = MarkAll(summary, "indexes", "CREATED")
    /\ pg' = [pg EXCEPT !.fks = @ \cup txn.fks, !.indexes = @ \cup txn.indexes]
    /\ txn' = NoTransaction
    /\ log' = Append(log, [op |-> "COMMIT", table |-> 0, other |-> 0])
    /\ pc' = next_phase(pc)
    /\ stmt' = 1
    /\ UNCHANGED <<db, tables_sql, fks_sql, indexes_sql, task, rr>>

Next ==
    \/ \E drop \in BOOLEAN : load_schema(drop)
    \/ ExecCreate
    \/ CommitSchema
    \/ load_data_to_postgres
    \/ \E t \in Tables : TaskConnect(t)
    \/ \E t \in Tables : TaskCopyStart(t)
    \/ \E t \in Tables : TaskWriteRow(t)
    \/ \E t \in Tables : TaskCopyEnd(t)
    \/ \E t \in Tables : TaskCommit(t)
    \/ RunRaises
    \/ RunReturns
    \/ ExecFk
    \/ MarkFks
    \/ ExecIndex
    \/ CommitKeys

Spec == Init /\ [][Next]_vars

\* ------------------------------------------------------------------------
\* The row specification: the body of "for row in sl_cur" on one row, for
\* every column list of ColumnLists and every row of values
\* ------------------------------------------------------------------------

InitRow ==
    /\ db = [seqAt |-> 0, shape |-> "plain", nrows |-> [t \in Tables |-> 1]]
    /\ pg = [tables |-> Tables, rows |-> [t \in Tables |-> 0],
             fks |-> {}, indexes |-> {}]
    /\ pc = "row"
    /\ stmt = 0
    /\ tables_sql = <<>>
    /\ fks_sql = <<>>
    /\ indexes_sql = <<>>
    /\ summary = [cat \in Categories |-> [t \in Tables |-> NoEntry]]
    /\ txn = NoTransaction
    /\ task = [t \in Tables |-> Unstarted]
    /\ log = <<>>
    /\ \E cs \in ColumnLists : \E r \in RowsOf(cs) :
         \* row = list(row)
         rr = [state |-> "loop", columns |-> cs, source |-> r, row |-> r,
               mid |-> r, idx |-> 1, raised |-> "no", sent |-> <<>>]

\* one pass of "for idx, c in enumerate(table.columns)" that raises nothing;
\* mid keeps what the transformer returned, before the empty coercion
RowColumn ==
    /\ rr.state = "loop"
    /\ rr.idx <= Len(rr.columns)
    /\ LET c == rr.columns[rr.idx]
           t == apply_transformer(c, rr.row[rr.idx])
       IN  /\ t.raised = "no"
           /\ rr' = [rr EXCEPT !.mid[rr.idx] = t.val,
                               !.row[rr.idx] = transform_column(c, rr.row[rr.idx]).val,
                               !.idx = @ + 1]
    /\ UNCHANGED run_vars

\* the transformer of the column raises: the loop is left
RowRaise ==
    /\ rr.state = "loop"
    /\ rr.idx <= Len(rr.columns)
    /\ LET t == apply_transformer(rr.columns[rr.idx], rr.row[rr.idx])
       IN  /\ t.raised # "no"
           /\ rr' = [rr EXCEPT !.state = "raised", !.raised = t.raised]
    /\ UNCHANGED run_vars

\* await copy.write_row(row)
RowWrite ==
    /\ rr.state = "loop"
    /\ rr.idx > Len(rr.columns)
    /\ rr' = [rr EXCEPT !.state = "written", !.sent = rr.row]
    /\ UNCHANGED run_vars

NextRow == RowColumn \/ RowRaise \/ RowWrite

SpecRow == InitRow /\ [][NextRow]_vars

\* ------------------------------------------------------------------------
\* The synthesis specification: load_schema over catalogs drawn table by
\* table, one aspect of the tables varied at a time
\* ------------------------------------------------------------------------

DrawnTable(name, cols, keys, rowid, fks, xidx) ==
    [name |-> name, columns |-> cols, pks |-> keys, use_rowid |-> rowid,
     foreign_keys |-> fks, xindexes |-> xidx]

\* the sequences over S of length 1..n
SeqsUpTo(S, n) == UNION {SeqsOfLen(S, k) : k \in 1..n}

\* the names of a table's columns differ
Distinct(q) == \A i, j \in 1..Len(q) : q[i] = q[j] => i = j

KeyColumnNames == {Text_a, Text_b, Text_ab}

KeyColumn(name) ==
    IF name = Text_b
    THEN [Column(name, Text_INTEGER, TRUE) EXCEPT !.default_value = <<"0">>]
    ELSE Column(name, Text_INTEGER, FALSE)

\* tables of one to MaxKeys columns: either every column is part of the
\* primary key, or the table declares none; then sqlite_utils gives pks as
\* ["rowid"] and sets use_rowid
KeyTables(t) ==
    {DrawnTable(t, [j \in 1..Len(q) |-> KeyColumn(q[j])],
                IF rowid THEN <<Text_rowid>> ELSE q, rowid, <<>>, <<>>) :
        q \in {x \in SeqsUpTo(KeyColumnNames, MaxKeys) : Distinct(x)},
        rowid \in BOOLEAN}

\* a table that is like Users but for the name of its key
PlainTable(t) ==
    DrawnTable(t, [UsersColumns EXCEPT ![1].name = Text_id \o <<ToString(t)>>],
               << Text_id \o <<ToString(t)>> >>, FALSE, <<>>, <<>>)

TwoColumns == << Column(Text_a, Text_INTEGER, FALSE), Column(Text_b, Text_INTEGER, FALSE) >>

\* the foreign keys of the first table: from either column to a column "id"
\* or "name" of another table, or of a table the catalog does not have
ForeignKeyKinds ==
    {ForeignKey(1, col, o, oc) :
        col \in {Text_a, Text_b},
        o \in (Tables \ {1}) \cup {DanglingTable},
        oc \in {Text_id, Text_name}}

ForeignKeyTables ==
    {DrawnTable(1, TwoColumns, <<Text_rowid>>, TRUE, fks, <<>>) :
        fks \in {<<>>} \cup SeqsUpTo(ForeignKeyKinds, MaxKeys)}

\* the entries of an index: a column ascending, a column descending, an
\* expression
IndexColumnKinds ==
    {XIndexColumn(Text_a, FALSE), XIndexColumn(Text_b, TRUE),
     XIndexColumn(Text_empty, FALSE)}

\* one index on the first table; index_xinfo lists the rowid after the keys
IndexTables ==
    {DrawnTable(1, TwoColumns, <<Text_rowid>>, TRUE, <<>>,
                << XIndex(Text_idx, q \o << XIndexColumn(Text_empty, FALSE) >>) >>) :
        q \in SeqsUpTo(IndexColumnKinds, MaxKeys)}

TypeWords ==
    {Text_STRING, Text_NVARCHAR, Text_DATETIME, Text_BLOB, Text_INTEGER,
     Text_N, Text_Len20}

\* the declared types: up to MaxWords words, written without a gap
TypeInputs ==
    {Text_empty} \cup {Join(q) : q \in SeqsUpTo(TypeWords, MaxWords)}

TypeTables ==
    {DrawnTable(1, << Column(Text_c, ty, FALSE) >>, <<Text_rowid>>, TRUE,
                <<>>, <<>>) : ty \in TypeInputs}

\* the catalogs: every table a key table, or the first table one of the
\* others and the rest plain
Catalogs ==
    {c \in [Tables -> UNION {KeyTables(t) : t \in Tables}] :
        \A t \in Tables : c[t].name = t}
    \cup {[t \in Tables |-> IF t = 1 THEN first ELSE PlainTable(t)] :
            first \in ForeignKeyTables \cup IndexTables \cup TypeTables}

InitSyn ==
    /\ \E c \in Catalogs :
         db = [seqAt |-> 0, shape |-> "drawn", nrows |-> [t \in Tables |-> 0],
               tables |-> c]
    /\ pg = [tables |-> {}, rows |-> [t \in Tables |-> 0],
             fks |-> {}, indexes |-> {}]
    /\ pc = "constructed"
    /\ stmt = 0
    /\ tables_sql = <<>>
    /\ fks_sql = <<>>
    /\ indexes_sql = <<>>
    /\ summary = [cat \in Categories |-> [t \in Tables |-> NoEntry]]
    /\ txn = NoTransaction
    /\ task = [t \in Tables |-> Unstarted]
    /\ log = <<>>
    /\ rr = RowIdle

NextSyn == \E drop \in BOOLEAN : load_schema(drop)

SpecSyn == InitSyn /\ [][NextSyn]_vars

\* ------------------------------------------------------------------------
\* Properties
\* ------------------------------------------------------------------------

Applied(op) == {i \in 1..Len(log) : log[i].op = op}

DataStatus(t) == summary["data"][t]

\* C1: no ALTER TABLE ... FOREIGN KEY statement is applied to the target
\* before the CREATE TABLE statements of both the foreign key's own table and
\* the table it references have been applied.
C1_FkAfterBothTables ==
    \A i \in Applied("FK") :
        /\ \E j \in Applied("CREATE") : j < i /\ log[j].table = log[i].table
        /\ \E j \in Applied("CREATE") : j < i /\ log[j].table = log[i].other

\* a foreign key has been applied whose referenced table comes later in the
\* catalog than its own table
C1_Witness ==
    \E i \in Applied("FK") : log[i].other > log[i].table

\* C2: the phases of populate_postgres are sequential: a load task has only
\* started once every CREATE TABLE is applied and the schema transaction
\* committed; a foreign-key or index statement is only applied when every
\* load task is done; every foreign-key statement is applied before the
\* first index statement.
C2_PhasesSequential ==
    /\ (\E t \in Tables : task[t].pc # "unstarted") =>
          /\ Len(log) > Len(tables_sql)
          /\ \A i \in 1..Len(tables_sql) : log[i] = tables_sql[i]
          /\ log[Len(tables_sql) + 1].op = "COMMIT"
          /\ \A i \in 1..Len(tables_sql) : tables_sql[i].table \in pg.tables
    /\ (Applied("FK") \cup Applied("INDEX") # {}) =>
          \A t \in Tables : task[t].pc = "done"
    /\ \A i \in Applied("FK") : \A j \in Applied("INDEX") : i < j

\* a complete run that applied a foreign key and an index
C2_Witness ==
    /\ pc = "done"
    /\ Applied("FK") # {}
    /\ Applied("INDEX") # {}
    /\ \A t \in Tables : task[t].pc = "done"

\* C3: when every load task succeeds, then whatever the interleaving, every
\* table has data status "LOADED n" where n is the number of rows of its
\* source cursor and the number of rows of the target table.
C3_AllLoaded ==
    (\A t \in Tables : task[t].pc = "done") =>
        \A t \in Tables :
            /\ DataStatus(t).status = "LOADED"
            /\ DataStatus(t).loaded = db.nrows[t]
            /\ pg.rows[t] = db.nrows[t]

\* two tables of different sizes, one past a progress update, both loaded
C3_Witness ==
    /\ \A t \in Tables : task[t].pc = "done"
    /\ \E t, u \in Tables :
         /\ db.nrows[t] > ProgressInterval
         /\ db.nrows[u] = 1
         /\ DataStatus(t).loaded = db.nrows[t]
         /\ DataStatus(u).loaded = 1

TransformerFailed(t) ==
    task[t].pc = "raised" /\ task[t].exc \in {"Exception", "AttributeError"}

\* C4: if exactly one table's data violates a not-null constraint (a falsy
\* value in a NOT NULL BOOLEAN column), then after the run that table's data
\* status reflects the failure (it is neither "PREPARED" nor "LOADED n"),
\* while every table whose task had finished keeps "LOADED n".
C4_FailedTableReflectsFailure ==
    ( /\ pc = "load_failed"
      /\ Cardinality({t \in Tables : task[t].pc = "raised"}) = 1
      /\ \E t \in Tables : task[t].pc = "raised" /\ task[t].exc = "Exception" )
    => \A t \in Tables :
         /\ task[t].pc = "raised" =>
               DataStatus(t).status \notin {"PREPARED", "LOADED"}
         /\ task[t].pc = "done" =>
               DataStatus(t).status = "LOADED" /\ DataStatus(t).loaded = db.nrows[t]

KeyStatusesPrepared ==
    \A t \in Tables : \A cat \in {"fks", "indexes"} :
        summary[cat][t].present => summary[cat][t].status = "PREPARED"

\* C6: no phase rolls forward past a failure of an earlier one: once a
\* CREATE TABLE has failed no load task is launched; once a load task has
\* failed no foreign-key or index statement is applied and every fks and
\* indexes status stays "PREPARED".
C6_NoRollForward ==
    /\ Applied("CREATE_FAILED") # {} =>
          /\ \A t \in Tables : task[t].pc = "unstarted"
          /\ \A t \in Tables : ~DataStatus(t).present
    /\ (\E t \in Tables : task[t].pc = "raised") =>
          /\ Applied("FK") \cup Applied("INDEX") = {}
          /\ KeyStatusesPrepared

\* the run ended in the load phase with foreign keys and indexes to apply
C6_Witness ==
    /\ pc = "load_failed"
    /\ \E t \in Tables : task[t].pc = "raised"
    /\ fks_sql # <<>>
    /\ indexes_sql # <<>>
    /\ \E t \in Tables : summary["fks"][t].present

\* C7: the load of a table is all or nothing: when a transformer raises on
\* a row, whatever its position, none of the rows written to the COPY before
\* it is committed in the target, and the table is not loaded again.
C7_AllOrNothing ==
    /\ [](\A t \in Tables : TransformerFailed(t) => pg.rows[t] = 0)
    /\ [][\A t \in Tables :
            TransformerFailed(t) => task'[t] = task[t] /\ pg'.rows[t] = pg.rows[t]]_vars

\* a transformer raised after rows had been written to the COPY
C7_Witness ==
    \E t \in Tables : TransformerFailed(t) /\ task[t].rows_copied > 0

\* C8: the schema build is atomic: the CREATE TABLE statements are applied
\* in catalog order in one transaction, and when one of them fails none of
\* the tables created before it remains in the target and no columns or pks
\* status is "CREATED".
C8_SchemaAtomic ==
    /\ \A i \in Applied("CREATE") : i <= Len(tables_sql) /\ log[i] = tables_sql[i]
    /\ \A i, j \in 1..Len(tables_sql) :
          i < j => tables_sql[i].table < tables_sql[j].table
    /\ Applied("CREATE_FAILED") # {} =>
          /\ \A i \in Applied("CREATE") : log[i].table \notin pg.tables
          /\ \A t \in Tables : \A cat \in {"columns", "pks"} :
                summary[cat][t].status # "CREATED"

\* a CREATE TABLE failed after an earlier one had been applied
C8_Witness ==
    /\ Applied("CREATE_FAILED") # {}
    /\ Applied("CREATE") # {}
    /\ pc = "create_failed"

\* the columns of the row whose transformer has been called
BooleanCalls ==
    {j \in 1..Len(rr.columns) :
        /\ rr.columns[j].type = Text_BOOLEAN
        /\ j < rr.idx \/ (j = rr.idx /\ rr.state = "raised")}

Returned(j) == j < rr.idx

RaisedWith(j, e) == j = rr.idx /\ rr.state = "raised" /\ rr.raised = e

CanonicalTrue == PyStr(Text_TRUE)
CanonicalFalse == PyStr(Text_FALSE)

\* the text "true" in any letter case
SaysTrue(v) == v.k = "str" /\ v.s \in {Text_true, Text_TRUE, Text_True}

\* C9: the boolean transformer returns NULL for a falsy value of a nullable
\* column, raises for a falsy value of a not-nullable column, and for every
\* truthy value returns TRUE or FALSE without failing: TRUE for any truthy
\* number and for the text "true" in any letter case.
C9_BooleanTransformer ==
    \A j \in BooleanCalls :
        LET v == rr.source[j]
            nullable == ~rr.columns[j].notnull
        IN  /\ (nullable /\ ~Truthy(v)) => Returned(j) /\ rr.mid[j] = PyNone
            /\ (~nullable /\ ~Truthy(v)) => RaisedWith(j, "Exception")
            /\ Truthy(v) =>
                  /\ Returned(j)
                  /\ rr.mid[j] \in {CanonicalTrue, CanonicalFalse}
                  /\ (IsNumber(v) \/ SaysTrue(v)) => rr.mid[j] = CanonicalTrue

\* C10: in the load of a row, for every nullable column a value that after
\* the transformer is falsy but not the numeral zero is sent as null, numeric
\* zero is sent unchanged, and a value of a not-null column is never turned
\* into null; the row (1, 1, '') of Users is sent as (1, TRUE, NULL).
C10_EmptyCoercion ==
    rr.state = "written" =>
        /\ \A j \in 1..Len(rr.columns) :
              LET c == rr.columns[j]
                  m == rr.mid[j]
                  zero == IsNumber(m) /\ m.i = 0
              IN  /\ (~c.notnull /\ ~Truthy(m) /\ ~zero) => rr.sent[j] = PyNone
                  /\ zero => rr.sent[j] = m
                  /\ c.notnull => rr.sent[j] = m
                  /\ ~(c.type \in transformers) => m = rr.source[j]
        /\ (rr.columns = UsersColumns
              /\ rr.source = <<PyInt(1), PyInt(1), PyStr(<<>>)>>)
           => rr.sent = <<PyInt(1), CanonicalTrue, PyNone>>

\* the row (1, 1, '') of Users has been sent as (1, TRUE, NULL)
C10_Witness ==
    /\ rr.state = "written"
    /\ rr.columns = UsersColumns
    /\ rr.source = <<PyInt(1), PyInt(1), PyStr(<<>>)>>
    /\ rr.sent = <<PyInt(1), CanonicalTrue, PyNone>>

\* the index of the catalog a CREATE INDEX statement was made from
IndexOf(x) ==
    LET xs == Table(x.table).xindexes
    IN  xs[CHOOSE k \in 1..Len(xs) : xs[k].name = x.index_name]

Named(col) == col.name # Text_empty

\* C11: index synthesis skips the column entries without a name, the named
\* ones keep their order and direction, and no CREATE INDEX statement with an
\* empty column list is produced: an index all of whose entries are unnamed
\* is an error of the synthesizer.
C11_IndexNeverEmpty ==
    pc # "constructed" =>
        \A i \in 1..Len(indexes_sql) :
            LET named == SelectSeq(IndexOf(indexes_sql[i]).columns, Named)
                cols == indexes_sql[i].columns
            IN  /\ Len(cols) = Len(named)
                /\ \A j \in 1..Len(cols) :
                      /\ cols[j].name = named[j].name
                      /\ cols[j].sort_order = "DESC" <=> named[j].desc
                /\ cols # <<>>

\* the declared type a column clause was made from, and the clause's type
ColumnTypes ==
    IF pc = "constructed" THEN {}
    ELSE UNION {
        {<<Table(tables_sql[i].table).columns[j].type,
           tables_sql[i].columns[j].type>> :
            j \in 1..Len(tables_sql[i].columns)} : i \in 1..Len(tables_sql)}

\* C12 as stated: the type mapping never fails; a type containing "BLOB"
\* maps to "BYTEA", one containing "DATETIME" to "TIMESTAMP", one containing
\* "STRING" to "TEXT", one containing "NVARCHAR" to itself with that part
\* replaced by "VARCHAR"; a type containing none of them is unchanged.
C12_TypeMapping ==
    \A p \in ColumnTypes :
        /\ Contains(p[1], Text_BLOB) => p[2] = Text_BYTEA
        /\ Contains(p[1], Text_DATETIME) => p[2] = Text_TIMESTAMP
        /\ Contains(p[1], Text_STRING) => p[2] = Text_TEXT
        /\ Contains(p[1], Text_NVARCHAR) =>
              p[2] = Replace(p[1], Text_NVARCHAR, Text_VARCHAR)
        /\ ( ~Contains(p[1], Text_BLOB) /\ ~Contains(p[1], Text_DATETIME)
             /\ ~Contains(p[1], Text_STRING) /\ ~Contains(p[1], Text_NVARCHAR) )
           => p[2] = p[1]

\* C12 as amended: the four rules are tried in the order STRING, NVARCHAR,
\* DATETIME, BLOB and the first that matches decides: a type containing
\* "STRING" maps to "TEXT"; otherwise one containing "NVARCHAR" maps to itself
\* with every "NVARCHAR" replaced by "VARCHAR" ("NVARCHAR(20)" to
\* "VARCHAR(20)"); otherwise one containing "DATETIME" maps to "TIMESTAMP";
\* otherwise one containing "BLOB" maps to "BYTEA"; otherwise the type is
\* unchanged.
C12_FirstMatchWins ==
    \A p \in ColumnTypes :
        LET string == Contains(p[1], Text_STRING)
            nvarchar == Contains(p[1], Text_NVARCHAR)
            datetime == Contains(p[1], Text_DATETIME)
            blob == Contains(p[1], Text_BLOB)
        IN  /\ string => p[2] = Text_TEXT
            /\ (~string /\ nvarchar) =>
                  p[2] = Replace(p[1], Text_NVARCHAR, Text_VARCHAR)
            /\ p[1] = Text_NVARCHAR20 => p[2] = Text_VARCHAR20
            /\ (~string /\ ~nvarchar /\ datetime) => p[2] = Text_TIMESTAMP
            /\ (~string /\ ~nvarchar /\ ~datetime /\ blob) => p[2] = Text_BYTEA
            /\ (~string /\ ~nvarchar /\ ~datetime /\ ~blob) => p[2] = p[1]

\* a type that contains both "DATETIME" and "BLOB" has been mapped to
\* "TIMESTAMP", and "NVARCHAR(20)" to "VARCHAR(20)"
C12_Witness ==
    /\ \E p \in ColumnTypes :
         /\ Contains(p[1], Text_DATETIME)
         /\ Contains(p[1], Text_BLOB)
         /\ p[2] = Text_TIMESTAMP
    /\ <<Text_NVARCHAR20, Text_VARCHAR20>> \in ColumnTypes

\* a step of the load task of table t
TaskStep(t) == pc = "loading" /\ pc' = "loading" /\ task'[t] # task[t]

\* C13: in the load phase a task writes only the data entry of its own
\* table: a step of the task of table t leaves the data entries of the other
\* tables and every entry of the other categories as they were, no step of
\* the phase changes an entry but a step of the entry's own task, and no
\* entry is deleted.
C13_TaskWritesOwnEntry ==
    [][ pc = "loading" =>
          \/ summary' = summary
          \/ /\ \A cat \in Categories \ {"data"} : summary'[cat] = summary[cat]
             /\ \A t \in Tables : TaskStep(t) =>
                   \A u \in Tables \ {t} :
                       summary'["data"][u] = summary["data"][u]
             /\ \A u \in Tables :
                   /\ summary'["data"][u] # summary["data"][u] => TaskStep(u)
                   /\ summary["data"][u].present => summary'["data"][u].present
      ]_vars

\* a task has written the status of its table while the task of another
\* table, whose status is still "PREPARED", is running
C13_Witness ==
    /\ pc = "loading"
    /\ \E t, u \in Tables :
         /\ t # u
         /\ DataStatus(t).status = "LOADED"
         /\ DataStatus(u).status = "PREPARED"
         /\ task[t].pc \in Running
         /\ task[u].pc \in Running
         /\ summary["columns"][1].present

\* C14: for every table, get_table_sql emits one clause per column in the
\* order of the catalog's ordinals (the order of table.columns), and a
\* CONSTRAINT ... PRIMARY KEY clause, over the primary-key columns, exactly
\* when the table has a non-empty primary-key list and does not use the
\* synthetic rowid.
C14_ColumnOrderAndPk ==
    pc # "constructed" =>
        \A i \in 1..Len(tables_sql) :
            LET s == tables_sql[i]
                table == Table(s.table)
            IN  /\ Len(s.columns) = Len(table.columns)
                /\ \A j \in 1..Len(s.columns) :
                      /\ s.columns[j].name = table.columns[j].name
                      /\ s.columns[j].notnull = table.columns[j].notnull
                /\ s.has_pk <=> (table.pks # <<>> /\ ~table.use_rowid)
                /\ table.use_rowid => ~s.has_pk /\ s.pks = <<>>
                /\ s.has_pk => s.pks = table.pks

\* a table of several columns got its primary-key clause, and a table that
\* uses the rowid, whose primary-key list is not empty, got none
C14_Witness ==
    /\ pc # "constructed"
    /\ \E i, k \in 1..Len(tables_sql) :
         /\ tables_sql[i].has_pk
         /\ Len(tables_sql[i].columns) > 1
         /\ Len(tables_sql[i].pks) > 1
         /\ ~tables_sql[k].has_pk
         /\ Table(tables_sql[k].table).use_rowid
         /\ Table(tables_sql[k].table).pks # <<>>
         /\ Len(tables_sql[k].columns) > 1

\* populate_postgres has returned or raised
RunEnded == pc \in {"done", "create_failed", "load_failed", "keys_failed"}

\* C15: at the end of a run, successful or not, every table whose data
\* status is "LOADED n" has exactly n rows committed in the target: the
\* status is never ahead of what the table's COPY and connection committed.
C15_LoadedMeansCommitted ==
    RunEnded =>
        \A t \in Tables :
            DataStatus(t).status = "LOADED" => pg.rows[t] = DataStatus(t).loaded

\* the tables whose CREATE TABLE statement load_schema has synthesized and
\* the schema-build phase has applied
CreatedTables ==
    {t \in Tables :
        /\ \E i \in 1..Len(tables_sql) : tables_sql[i].table = t
        /\ \E i \in Applied("CREATE") : log[i].table = t}

\* C16: every table for which the load phase launches a load task is a table
\* whose CREATE TABLE statement was synthesized by load_schema and applied in
\* the schema-build phase, also when the catalog holds sqlite_sequence.
C16_LoadedSubsetOfCreated ==
    \A t \in Tables : task[t].pc # "unstarted" => t \in CreatedTables

\* C17: at the end of a run, when the fks status of a table is "CREATED" the
\* table's foreign-key constraints are committed in the target; when a CREATE
\* INDEX statement has failed and the transaction of the phase is rolled
\* back, no fks status is "CREATED".
C17_FksCreatedMeansCommitted ==
    RunEnded =>
        /\ \A t \in Tables :
              summary["fks"][t].status = "CREATED" =>
                  \A i \in 1..Len(fks_sql) :
                      fks_sql[i].table = t => i \in pg.fks
        /\ Applied("INDEX_FAILED") # {} =>
              \A t \in Tables : summary["fks"][t].status # "CREATED"

\* C18: the foreign-key constraint names get_fk_sql synthesizes for one
\* table are pairwise distinct: no two ALTER TABLE ... ADD CONSTRAINT
\* statements of a table carry the same constraint name.
C18_FkNamesDistinct ==
    pc # "constructed" =>
        \A i, j \in 1..Len(fks_sql) :
            (i # j /\ fks_sql[i].table = fks_sql[j].table) =>
                fks_sql[i].key_name # fks_sql[j].key_name

\* C19: across the tables of a run the primary-key constraint names
\* get_table_sql synthesizes are pairwise distinct.
C19_PkNamesDistinct ==
    pc # "constructed" =>
        \A i, j \in 1..Len(tables_sql) :
            (i # j /\ tables_sql[i].has_pk /\ tables_sql[j].has_pk) =>
                tables_sql[i].pk_name # tables_sql[j].pk_name

====
